---- MODULE Spec2Model ----
(***************************************************************************)
(* Model of ACT_I (src/ACT.py): omnibus test of independence of a two-way  *)
(* contingency table with cellwise and familywise residual analysis,       *)
(* calibrated by a parametric bootstrap.                                   *)
(*                                                                         *)
(* Numbers.  Critical values (z) are fixed-point integers with 26          *)
(* fractional bits.  A residual is a float: finite (kept in halves, so     *)
(* 6 is 3.0), NaN, +Inf or -Inf.  Probabilities are rationals; alpha is    *)
(* kept in hundredths.                                                     *)
(*                                                                         *)
(* Matrices.  An R x C residual matrix is kept as three entries: `first`   *)
(* is cell (1,1), `second` is cell (1,2), `rest` is the value of every     *)
(* other cell.  The fitter (statsmodels) and the multinomial sampler are   *)
(* external: what they return is drawn from ObsChoices and SimChoices.     *)
(***************************************************************************)
EXTENDS Integers, Sequences, FiniteSets, TLC

\* ------------------------------------------------------------------ bounds
MaxNrep == 3

\* --------------------------------------------------------------- constants
Scale == 2^26
ResScale == 2^25
AlphaDen == 100
Iterations == 25
MinTotal == 1000
RecommendedNrep == 30000
ZMax0 == 10 * Scale
NotComputed == "Not computed; insufficent valid replicates"
None == [type |-> "None"]

\* ------------------------------------------------------------------ floats
Fin(h) == [k |-> "fin", v |-> h]
NaN == [k |-> "nan", v |-> 0]
PInf == [k |-> "+inf", v |-> 0]
NInf == [k |-> "-inf", v |-> 0]

IsFinite(x) == x.k = "fin"

\* IEEE-754 addition
FAdd(x, y) ==
  CASE x.k = "nan" \/ y.k = "nan" -> NaN
    [] x.k = "fin" /\ y.k = "fin" -> Fin(x.v + y.v)
    [] x.k = "fin" -> y
    [] y.k = "fin" -> x
    [] x.k = y.k -> x
    [] OTHER -> NaN

\* x added to itself n times (n >= 0)
FTimes(x, n) ==
  CASE n = 0 -> Fin(0)
    [] x.k = "fin" -> Fin(n * x.v)
    [] OTHER -> x

\* abs(x) > z, z a fixed-point critical value; a comparison with NaN is false
AbsGt(x, z) ==
  CASE x.k = "nan" -> FALSE
    [] x.k = "fin" -> (IF x.v < 0 THEN -x.v ELSE x.v) * ResScale > z
    [] OTHER -> TRUE

\* ---------------------------------------------------------------- matrices
RECURSIVE Product(_)
Product(shape) == IF shape = <<>> THEN 1 ELSE Head(shape) * Product(Tail(shape))

Mat(a, b, c) == [first |-> a, second |-> b, rest |-> c]

\* a residual matrix together with the normalization that produced it
Resid(norm, m) == [norm |-> norm, first |-> m.first, second |-> m.second, rest |-> m.rest]

\* r.sum()
MatSum(m, shape) ==
  FAdd(FAdd(m.first, m.second), FTimes(m.rest, Product(shape) - 2))

\* abs(m) > z, elementwise
Exceeds(m, z) == Mat(AbsGt(m.first, z), AbsGt(m.second, z), AbsGt(m.rest, z))

\* b.any() / True in b
AnyTrue(b) == b.first \/ b.second \/ b.rest

\* number of true cells of b
CountTrue(b, shape) ==
  (IF b.first THEN 1 ELSE 0) + (IF b.second THEN 1 ELSE 0)
    + (IF b.rest THEN Product(shape) - 2 ELSE 0)

\* every entry of m is finite
AllFinite(m) == IsFinite(m.first) /\ IsFinite(m.second) /\ IsFinite(m.rest)

\* ----------------------------------------------------------------- strings
LowerChar(c) ==
  CASE c = "A" -> "a" [] c = "D" -> "d" [] c = "J" -> "j"
    [] c = "M" -> "m" [] c = "C" -> "c" [] OTHER -> c

\* str.lower()
Lower(s) == [i \in 1..Len(s) |-> LowerChar(s[i])]

\* ------------------------------------------------------------------ inputs
ObsChoices ==
  { Mat(Fin(1), Fin(-1), Fin(1)),
    Mat(Fin(4), Fin(-1), Fin(1)) }

SimChoices ==
  { Mat(Fin(1), Fin(-1), Fin(1)),
    Mat(Fin(6), Fin(1), Fin(1)),
    Mat(Fin(1), Fin(-22), Fin(1)),
    Mat(NaN, Fin(1), Fin(1)),
    Mat(PInf, NInf, Fin(1)),
    Mat(PInf, Fin(1), Fin(1)),
    Mat(Fin(1), NInf, Fin(1)) }

Array(shape, nan, empty, res) ==
  [isArray |-> TRUE, shape |-> shape, hasNaN |-> nan, emptyMargin |-> empty,
   fit |-> res]

BadObserved ==
  { [isArray |-> FALSE, shape |-> <<2, 2>>, hasNaN |-> FALSE,
     emptyMargin |-> FALSE, fit |-> Mat(Fin(1), Fin(-1), Fin(1))],
    Array(<<2, 2, 2>>, FALSE, FALSE, Mat(Fin(1), Fin(-1), Fin(1))),
    Array(<<4>>, FALSE, FALSE, Mat(Fin(1), Fin(-1), Fin(1))),
    Array(<<1, 3>>, FALSE, FALSE, Mat(Fin(1), Fin(-1), Fin(1))),
    Array(<<2, 2>>, TRUE, FALSE, Mat(Fin(1), Fin(-1), Fin(1))),
    Array(<<2, 2>>, FALSE, TRUE, Mat(Fin(1), Fin(-1), Fin(1))) }

GoodObserved ==
  { Array(<<2, 250>>, FALSE, FALSE, r) : r \in ObsChoices }
    \cup { Array(<<2, 2>>, FALSE, FALSE, Mat(Fin(4), Fin(-4), Fin(4))) }

ObservedInputs == BadObserved \cup GoodObserved

AlphaInputs ==
  { [type |-> "float", num |-> a] : a \in {-5, 0, 5, 50, 60} }
    \cup { [type |-> "int", num |-> 100] }

RtypeInputs ==
  { <<"A", "D", "J">>, <<"a", "d", "j">>, <<"M", "C">>, <<"m", "c">>, <<"A", "D">> }

NrepInputs ==
  { [type |-> "int", num |-> n, den |-> 1] : n \in -1..MaxNrep }
    \cup { [type |-> "float", num |-> n, den |-> 1] : n \in {-1, 0} }
    \cup { [type |-> "float", num |-> 5, den |-> 2],
           [type |-> "str", num |-> 0, den |-> 1] }

\* --------------------------------------------------------------- variables
VARIABLES pc, args, nrep, warnings, residuals, sim_residuals, toKeep, valid,
          kept, total, report, raised

vars == <<pc, args, nrep, warnings, residuals, sim_residuals, toKeep, valid,
          kept, total, report, raised>>

Init ==
  /\ pc = "idle"
  /\ args = None
  /\ nrep = 0
  /\ warnings = {}
  /\ residuals = None
  /\ sim_residuals = <<>>
  /\ toKeep = <<>>
  /\ valid = 0
  /\ kept = <<>>
  /\ total = 0
  /\ report = None
  /\ raised = None

\* ------------------------------------------------------------- validation
Error(type, line) == [type |-> type, line |-> line]

\* lines 71-88, in order; None when every check passes.  For a 1-D array
\* observed.sum(axis=0) is a scalar and `0 in` it raises TypeError (line 77).
ValidationError(observed, alpha, Rtype, n) ==
  IF ~observed.isArray THEN Error("TypeError", 72)
  ELSE IF Len(observed.shape) > 2 \/ Product(observed.shape) < 4
    THEN Error("ValueError", 74)
  ELSE IF observed.hasNaN THEN Error("ValueError", 76)
  ELSE IF Len(observed.shape) < 2 THEN Error("TypeError", 77)
  ELSE IF observed.emptyMargin THEN Error("ValueError", 78)
  ELSE IF Lower(Rtype) \notin {<<"a", "d", "j">>, <<"m", "c">>}
    THEN Error("ValueError", 81)
  ELSE IF alpha.type # "float" \/ alpha.num <= 0 \/ 2 * alpha.num > AlphaDen
    THEN Error("ValueError", 84)
  ELSE IF n.type = "float" THEN None
  ELSE IF n.type # "int" \/ n.num < 0 THEN Error("ValueError", 88)
  ELSE None

\* int(nrep): truncation toward zero
IntOf(n) == IF n.num < 0 THEN -((-n.num) \div n.den) ELSE n.num \div n.den

\* lines 85-86
CoerceNrep(n) == IF n.type = "float" THEN IntOf(n) ELSE n.num

\* lines 71-88
Call(observed, alpha, Rtype, n) ==
  /\ pc = "idle"
  /\ args' = [observed |-> observed, alpha |-> alpha, Rtype |-> Rtype, nrep |-> n]
  /\ LET err == ValidationError(observed, alpha, Rtype, n) IN
       IF err # None
         THEN /\ pc' = "raised"
              /\ raised' = err
              /\ nrep' = nrep
         ELSE /\ pc' = "validated"
              /\ raised' = raised
              /\ nrep' = CoerceNrep(n)
  /\ UNCHANGED <<warnings, residuals, sim_residuals, toKeep, valid, kept,
                 total, report>>

\* ------------------------------------------------------------- residuals
\* the branch taken at lines 104 and 123
Branch(Rtype) == IF Rtype = <<"A", "D", "J">> THEN "adjusted" ELSE "moment-corrected"

\* lines 90-96
EarlyWarnings(shape, n) ==
  (IF n < RecommendedNrep THEN {"Consider using at least 30,000 replicates"} ELSE {})
    \cup (IF Product(shape) * n < MinTotal
            THEN {"consider increasing the number of replicates"} ELSE {})

\* lines 90-110
Fit ==
  /\ pc = "validated"
  /\ pc' = "fitted"
  /\ warnings' = EarlyWarnings(args.observed.shape, nrep)
  /\ residuals' = Resid(Branch(args.Rtype), args.observed.fit)
  /\ UNCHANGED <<args, nrep, sim_residuals, toKeep, valid, kept, total,
                 report, raised>>

\* lines 111-130; a negative size makes the sampler raise
Simulate ==
  /\ pc = "fitted"
  /\ IF nrep < 0
       THEN /\ pc' = "raised"
            /\ raised' = Error("ValueError", 112)
            /\ sim_residuals' = sim_residuals
       ELSE /\ pc' = "simulated"
            /\ raised' = raised
            /\ \E s \in [1..nrep -> SimChoices] :
                 sim_residuals' = [i \in 1..nrep |-> Resid(Branch(args.Rtype), s[i])]
  /\ UNCHANGED <<args, nrep, warnings, residuals, toKeep, valid, kept, total,
                 report>>

\* ---------------------------------------------------------------- filter
\* variant: np.isnan in place of np.isfinite
ToKeepNotNaN(sims, shape) ==
  [i \in 1..Len(sims) |-> MatSum(sims[i], shape).k # "nan"]

\* line 131
ToKeep(sims, shape) == [i \in 1..Len(sims) |-> IsFinite(MatSum(sims[i], shape))]

\* line 132
Valid(mask) == Len(mask)

\* line 137
RECURSIVE Keep(_, _)
Keep(sims, mask) ==
  IF sims = <<>> THEN <<>>
  ELSE (IF Head(mask) THEN <<Head(sims)>> ELSE <<>>) \o Keep(Tail(sims), Tail(mask))

\* line 138: np.size of the list of kept matrices
Total(sims, shape) == Len(sims) * Product(shape)

\* lines 131-138
Filter ==
  /\ pc = "simulated"
  /\ LET mask == ToKeep(sim_residuals, args.observed.shape)
         v == Valid(mask)
         k == Keep(sim_residuals, mask) IN
       /\ toKeep' = mask
       /\ valid' = v
       /\ IF v = 0
            THEN /\ pc' = "raised"
                 /\ raised' = Error("ValueError", 134)
                 /\ UNCHANGED <<warnings, kept, total>>
            ELSE /\ pc' = "filtered"
                 /\ raised' = raised
                 /\ warnings' = warnings \cup
                      (IF 2 * v <= nrep THEN {"Table seems to be too sparse"} ELSE {})
                 /\ kept' = k
                 /\ total' = Total(k, args.observed.shape)
  /\ UNCHANGED <<args, nrep, residuals, sim_residuals, report>>

\* ----------------------------------------------------------- calibration
\* scipy.stats.norm.ppf(num/den), rounded to 26 fractional bits
NormPpf(num, den) ==
  LET p == (200 * num) \div den IN
  CASE p = 100 -> 0
    [] p = 150 -> 45264241
    [] p = 190 -> 110384258
    [] p = 195 -> 131530956
    [] p = 198 -> 156118563
    [] p = 199 -> 172860978

\* line 139: norm.ppf(1-alpha)
ZMin0(alpha) == NormPpf(AlphaDen - alpha, AlphaDen)

\* line 141: norm.ppf(1-alpha/2)
ZResiduals(alpha) == NormPpf(2 * AlphaDen - alpha, 2 * AlphaDen)

\* line 147: number of replicates with a cell whose |residual| exceeds z
ExceedCount(sims, z) ==
  Cardinality({i \in 1..Len(sims) : AnyTrue(Exceeds(sims[i], z))})

\* a > b for rationals with positive denominators
RatGt(an, ad, bn, bd) == an * bd > bn * ad

\* variant: the rate is compared with 1-alpha
BisectStepConfidence(b, alpha, sims) ==
  LET z == (b.zmax + b.zmin) \div 2
      c == ExceedCount(sims, z) IN
  IF RatGt(c, Len(sims), AlphaDen - alpha, AlphaDen)
    THEN [i |-> b.i + 1, zmin |-> z, zmax |-> b.zmax, z_omnibus |-> z,
          type1 |-> [num |-> c, den |-> Len(sims)]]
    ELSE [i |-> b.i + 1, zmin |-> b.zmin, zmax |-> z, z_omnibus |-> z,
          type1 |-> [num |-> c, den |-> Len(sims)]]

\* variant: the midpoint is taken as (zmax-zmin)/2
BisectStepHalfWidth(b, alpha, sims) ==
  LET z == (b.zmax - b.zmin) \div 2
      c == ExceedCount(sims, z) IN
  IF RatGt(c, Len(sims), alpha, AlphaDen)
    THEN [i |-> b.i + 1, zmin |-> z, zmax |-> b.zmax, z_omnibus |-> z,
          type1 |-> [num |-> c, den |-> Len(sims)]]
    ELSE [i |-> b.i + 1, zmin |-> b.zmin, zmax |-> z, z_omnibus |-> z,
          type1 |-> [num |-> c, den |-> Len(sims)]]

\* variant: the two branches of the update are exchanged
BisectStepSwapped(b, alpha, sims) ==
  LET z == (b.zmax + b.zmin) \div 2
      c == ExceedCount(sims, z) IN
  IF RatGt(c, Len(sims), alpha, AlphaDen)
    THEN [i |-> b.i + 1, zmin |-> b.zmin, zmax |-> z, z_omnibus |-> z,
          type1 |-> [num |-> c, den |-> Len(sims)]]
    ELSE [i |-> b.i + 1, zmin |-> z, zmax |-> b.zmax, z_omnibus |-> z,
          type1 |-> [num |-> c, den |-> Len(sims)]]

\* lines 146-151: one iteration of the bisection; i counts the iterations done
BisectStep(b, alpha, sims) ==
  LET z == (b.zmax + b.zmin) \div 2
      c == ExceedCount(sims, z) IN
  IF RatGt(c, Len(sims), alpha, AlphaDen)
    THEN [i |-> b.i + 1, zmin |-> z, zmax |-> b.zmax, z_omnibus |-> z,
          type1 |-> [num |-> c, den |-> Len(sims)]]
    ELSE [i |-> b.i + 1, zmin |-> b.zmin, zmax |-> z, z_omnibus |-> z,
          type1 |-> [num |-> c, den |-> Len(sims)]]

\* line 145: for i in range(25)
RECURSIVE Bisect(_, _, _)
Bisect(b, alpha, sims) ==
  IF b.i = Iterations THEN b ELSE Bisect(BisectStep(b, alpha, sims), alpha, sims)

\* lines 139-151
Calibrate(alpha, sims) ==
  Bisect([i |-> 0, zmin |-> ZMin0(alpha), zmax |-> ZMax0, z_omnibus |-> 0,
          type1 |-> [num |-> 0, den |-> 1]], alpha, sims)

\* line 153: np.mean(np.absolute(sim_residuals) > z_residuals)
RECURSIVE CellExceedCount(_, _, _)
CellExceedCount(sims, z, shape) ==
  IF sims = <<>> THEN 0
  ELSE CountTrue(Exceeds(Head(sims), z), shape) + CellExceedCount(Tail(sims), z, shape)

\* variant: the two answers are exchanged
OmnibusTestInverted(signif_omnibus) ==
  IF AnyTrue(signif_omnibus) THEN "Not rejected" ELSE "Rejected"

\* lines 157-160
OmnibusTest(signif_omnibus) ==
  IF AnyTrue(signif_omnibus) THEN "Rejected" ELSE "Not rejected"

\* line 144
Enough(t) == t > MinTotal

Val(v) == [type |-> "value", value |-> v]
Str(s) == [type |-> "str", value |-> s]

\* lines 161-195
Report(a, obs_resid, n, v, sims, t) ==
  LET alpha == a.alpha.num
      shape == a.observed.shape
      z_residuals == ZResiduals(alpha)
      common ==
        [Problem |-> <<"Omnibus test of independence and", a.Rtype, "residual analysis">>,
         InputTable |-> a.observed,
         NominalTestSize |-> alpha,
         NumReplicates |-> n,
         ValidReplicates |-> v,
         ExpectedFrequencies |-> Val([fittedvalues |-> shape]),
         Residuals |-> Val(obs_resid),
         Cellwise_CriticalValue |-> z_residuals,
         Cellwise_Significant |-> Exceeds(obs_resid, z_residuals)] IN
  IF Enough(t)
    THEN LET b == Calibrate(alpha, sims)
             signif_omnibus == Exceeds(obs_resid, b.z_omnibus) IN
         common @@
         [Cellwise_ExactTestSize |->
            Val([num |-> CellExceedCount(sims, z_residuals, shape), den |-> t]),
          Famwise_AlphaStar |-> Val([times |-> 2, cdf |-> -b.z_omnibus]),
          Famwise_CriticalValue |-> Val(b.z_omnibus),
          Famwise_Significant |-> Val(signif_omnibus),
          Famwise_ExactTestSize |-> Val(b.type1),
          OmnibusHypothesis |-> Val(OmnibusTest(signif_omnibus))]
    ELSE common @@
         [Cellwise_ExactTestSize |-> Str(NotComputed),
          Famwise_AlphaStar |-> Str(NotComputed),
          Famwise_CriticalValue |-> Str(NotComputed),
          Famwise_Significant |-> Str(NotComputed),
          Famwise_ExactTestSize |-> Str(NotComputed),
          OmnibusHypothesis |-> Str(NotComputed)]

\* lines 139-196
Finish ==
  /\ pc = "filtered"
  /\ pc' = "returned"
  /\ report' = Report(args, residuals, nrep, valid, kept, total)
  /\ UNCHANGED <<args, nrep, warnings, residuals, sim_residuals, toKeep, valid,
                 kept, total, raised>>

Next ==
  \/ \E o \in ObservedInputs, a \in AlphaInputs, r \in RtypeInputs, n \in NrepInputs :
       Call(o, a, r, n)
  \/ Fit
  \/ Simulate
  \/ Filter
  \/ Finish

Spec == Init /\ [][Next]_vars

\* ================================================================ claims
Returned == pc = "returned"
Computed == Returned /\ report.Famwise_CriticalValue.type = "value"
Cells == Product(args.observed.shape)
NumValid == Cardinality({i \in DOMAIN toKeep : toKeep[i]})
Filtered == pc \in {"filtered", "returned"} \/ (pc = "raised" /\ raised.line = 134)

SixFields(r) ==
  { r.Cellwise_ExactTestSize, r.Famwise_AlphaStar, r.Famwise_CriticalValue,
    r.Famwise_Significant, r.Famwise_ExactTestSize, r.OmnibusHypothesis }

\* any-exceedance rate of the kept replicates at z is at most alpha/AlphaDen
RateAtMost(z, alpha) == ~RatGt(ExceedCount(kept, z), Len(kept), alpha, AlphaDen)

\* width bound of the bracket after the last iteration (one unit for rounding)
Resolution == ZMax0 \div 2^Iterations + 1

AlphaGrid == {1, 5, 50}

\* C1: with nrep >= 1, when no replicate is valid the call raises the
\* 'too sparse' error after the bootstrap and returns no report.
C1_TooSparseRaises ==
  (Filtered /\ nrep >= 1 /\ NumValid = 0)
    => (pc = "raised" /\ raised = Error("ValueError", 134) /\ report = None)

\* C2: ValidReplicates of a returned report is the number of replicates whose
\* validity flag is true.
C2_ValidCount == Returned => report.ValidReplicates = NumValid

\* C3: with at least one valid replicate, the six calibration fields carry the
\* marker exactly when valid x R x C < 1000 (expected frequencies and residuals
\* stay numeric), and carry values when it is 1000 or more.
C3_SkipBelowThreshold ==
  (Returned /\ NumValid >= 1) =>
    IF NumValid * Cells < MinTotal
      THEN /\ \A f \in SixFields(report) : f.type = "str" /\ f.value = NotComputed
           /\ report.ExpectedFrequencies.type = "value"
           /\ report.Residuals.type = "value"
      ELSE \A f \in SixFields(report) : f.type = "value"

\* C4 (as stated): whenever calibration is computed, Famwise_ExactTestSize
\* is at most alpha.
C4_SizeAtMostAlpha ==
  Computed =>
    ~RatGt(report.Famwise_ExactTestSize.value.num,
           report.Famwise_ExactTestSize.value.den, args.alpha.num, AlphaDen)

\* C4 (amended): Famwise_ExactTestSize is the any-exceedance rate of the kept
\* replicates at the reported critical value; the rate one bisection
\* resolution above that value is at most alpha whenever the rate at the
\* initial upper bound is.
C4_SizeWithinResolution ==
  Computed =>
    LET z == report.Famwise_CriticalValue.value IN
    /\ report.Famwise_ExactTestSize.value
         = [num |-> ExceedCount(kept, z), den |-> Len(kept)]
    /\ RateAtMost(ZMax0, args.alpha.num)
         => RateAtMost(z + Resolution, args.alpha.num)

C4_Witness ==
  /\ Computed
  /\ RatGt(report.Famwise_ExactTestSize.value.num,
           report.Famwise_ExactTestSize.value.den, args.alpha.num, AlphaDen)
  /\ RateAtMost(ZMax0, args.alpha.num)

\* C5 (as stated): whenever calibration is computed, Famwise_CriticalValue is
\* at least Cellwise_CriticalValue.
C5_AtLeastCellwise ==
  Computed => report.Famwise_CriticalValue.value >= report.Cellwise_CriticalValue

\* C5 (amended): whenever calibration is computed, Famwise_CriticalValue is at
\* least the one-sided quantile norm.ppf(1-alpha) the bracket starts from, and
\* at most the initial upper bound.
C5_AtLeastOneSided ==
  Computed =>
    /\ report.Famwise_CriticalValue.value >= ZMin0(args.alpha.num)
    /\ report.Famwise_CriticalValue.value <= ZMax0

C5_Witness ==
  /\ Computed
  /\ report.Famwise_CriticalValue.value < report.Cellwise_CriticalValue
  /\ report.Famwise_CriticalValue.value > ZMin0(args.alpha.num)

\* C6: a call that violates a precondition raises during validation, before
\* anything else is computed.
PreconditionViolated(a) ==
  \/ Len(a.observed.shape) # 2
  \/ Product(a.observed.shape) < 4
  \/ a.observed.hasNaN
  \/ a.observed.emptyMargin
  \/ a.alpha.num <= 0
  \/ 2 * a.alpha.num > AlphaDen
  \/ a.nrep.type \notin {"int", "float"}
  \/ a.nrep.num < a.nrep.den
  \/ a.nrep.num % a.nrep.den # 0

C6_RejectedAtBoundary ==
  (pc # "idle" /\ PreconditionViolated(args))
    => (pc = "raised" /\ raised.line <= 88 /\ residuals = None /\ sim_residuals = <<>>)

\* C7: in a report with calibration computed, OmnibusHypothesis is 'Rejected'
\* iff Famwise_Significant has a true entry, i.e. iff some observed residual
\* exceeds Famwise_CriticalValue in absolute value, and 'Not rejected' otherwise.
C7_OmnibusIffSignificant ==
  Computed =>
    LET sig == report.Famwise_Significant.value
        z == report.Famwise_CriticalValue.value
        exceeds == \E x \in {residuals.first, residuals.second, residuals.rest} : AbsGt(x, z) IN
    /\ report.OmnibusHypothesis.value = (IF sig.first \/ sig.second \/ sig.rest
                                           THEN "Rejected" ELSE "Not rejected")
    /\ (sig.first \/ sig.second \/ sig.rest) <=> exceeds

C7_Witness ==
  /\ Computed
  /\ report.OmnibusHypothesis.value = "Rejected"
  /\ report.Famwise_Significant.value.first
  /\ ~report.Famwise_Significant.value.rest

\* C8 (as stated): for one set of kept replicates and alpha1 < alpha2, the
\* critical value calibrated for alpha1 is at least the one for alpha2.
C8_Monotone ==
  (Returned /\ Enough(total)) =>
    \A a1, a2 \in AlphaGrid :
      a1 < a2 => Calibrate(a1, kept).z_omnibus >= Calibrate(a2, kept).z_omnibus

\* C8 (amended): for one set of kept replicates and alpha1 < alpha2, the
\* critical value calibrated for alpha1 is at least the one for alpha2 minus
\* twice the bisection resolution.
C8_MonotoneWithinResolution ==
  (Returned /\ Enough(total)) =>
    \A a1, a2 \in AlphaGrid :
      a1 < a2 => Calibrate(a1, kept).z_omnibus + 2 * Resolution
                    >= Calibrate(a2, kept).z_omnibus

C8_Witness ==
  /\ Returned
  /\ Enough(total)
  /\ Calibrate(1, kept).z_omnibus < Calibrate(5, kept).z_omnibus
  /\ Calibrate(5, kept).z_omnibus > Calibrate(50, kept).z_omnibus + 2 * Resolution

\* C9: a replicate is kept iff every entry of its residual matrix is finite;
\* the kept list is the all-finite replicates, in order.
C9_KeptIffFinite ==
  Filtered =>
    /\ \A i \in 1..Len(sim_residuals) : toKeep[i] <=> AllFinite(sim_residuals[i])
    /\ pc # "raised" => kept = SelectSeq(sim_residuals, AllFinite)
    /\ \A j \in 1..Len(kept) : AllFinite(kept[j])

C9_Witness ==
  /\ pc = "filtered"
  /\ \E i \in 1..Len(sim_residuals) :
       sim_residuals[i].first = PInf /\ sim_residuals[i].second = NInf /\ ~toKeep[i]
  /\ \E i \in 1..Len(sim_residuals) : sim_residuals[i].first = NaN /\ ~toKeep[i]
  /\ \E i \in 1..Len(sim_residuals) : toKeep[i]

\* C10: every accepted Rtype gets the normalization it names (any case of
\* 'adj': adjusted, any case of 'mc': moment-corrected), for the observed table
\* and for every replicate.
Named(Rtype) ==
  IF Lower(Rtype) = <<"a", "d", "j">> THEN "adjusted" ELSE "moment-corrected"

C10_NamedNormalization ==
  (pc \in {"fitted", "simulated", "filtered", "returned"}) =>
    /\ residuals.norm = Named(args.Rtype)
    /\ \A i \in 1..Len(sim_residuals) : sim_residuals[i].norm = Named(args.Rtype)
====
